---- MODULE Spec2Model ----
(***************************************************************************)
(* Model of the assembly generation pass of crumb                          *)
(* (src/compiler/asmgen.rs): instruction selection from TACKY              *)
(* (translate_with_pseudo), pseudo-operand resolution (TmpVarResolver),    *)
(* and instruction fix-up (fix_up_instrs, resolve_binary), together with   *)
(* the meaning of the emitted x86-64 instructions (movl, negl, notl, addl, *)
(* subl, imull, andl, orl, xorl, cdq, idivl) on 32-bit registers and       *)
(* 4-byte stack slots.                                                     *)
(***************************************************************************)
EXTENDS Integers, Sequences, FiniteSets, TLC

VARIABLES
    tacky_instrs,     \* FunDefTacky.instructions, the input of translate_fundef
    pc,               \* position inside translate_fundef
    pseudo_instrs,    \* result of translate_with_pseudo
    tmp_resolver,     \* the TmpVarResolver: min, min_used, id_to_off
    resolved_instrs,  \* instructions collected from resolve_temps so far
    res,              \* the vector fix_up_instrs builds and returns
    fix_i,            \* number of resolved instructions fix_up_instrs has consumed
    m_init,           \* machine state the generated code is started in
    m_resolved,       \* machine state after running resolved_instrs
    m_fixed           \* machine state after running the final instructions

vars == <<tacky_instrs, pc, pseudo_instrs, tmp_resolver, resolved_instrs,
          res, fix_i, m_init, m_resolved, m_fixed>>

-----------------------------------------------------------------------------
(* Bounds of the explored inputs.                                          *)

\* longest TACKY instruction list explored by Spec
MaxInstrs == 1
\* largest temporary id used by the explored TACKY programs (ids 0..MaxTmp)
MaxTmp == 2

\* stride of a stack slot: TmpVarResolver starts min at -4 and steps it by 4
SlotBytes == 4

-----------------------------------------------------------------------------
(* 32-bit two's complement arithmetic.  Values are kept in the signed      *)
(* range MinI32..MaxI32; every operation is computed on 16-bit halves or   *)
(* bit by bit so that no intermediate result leaves that range.            *)

MaxI32 == 2147483647
MinI32 == -MaxI32 - 1
Half == 256 * 256

Lo16(a) == a % Half
Hi16(a) == (a - Lo16(a)) \div Half

\* wrapping addition (addl)
Add32(a, b) ==
    LET lo == Lo16(a) + Lo16(b)
        hi == Hi16(a) + Hi16(b) + (lo \div Half)
        hiw == ((hi + (Half \div 2)) % Half) - (Half \div 2)
    IN  hiw * Half + (lo % Half)

\* wrapping negation (negl)
Neg32(a) == IF a = MinI32 THEN MinI32 ELSE -a

\* wrapping subtraction (subl): a - b
Sub32(a, b) == IF b = MinI32 THEN Add32(a, MinI32) ELSE Add32(a, -b)

\* bitwise complement (notl)
Not32(a) == (-1) - a

\* wrapping multiplication (imull): the low 32 bits of the product, from the
\* 16-bit halves of the operands and the bytes of their low halves
Mul32(a, b) ==
    LET a0 == Lo16(a) % 256
        a1 == Lo16(a) \div 256
        b0 == Lo16(b) % 256
        b1 == Lo16(b) \div 256
        mid == a1 * b0 + a0 * b1
        low == a0 * b0 + (mid % 256) * 256
        carry == a1 * b1 + (mid \div 256) + (low \div Half)
        hi == (carry + ((Hi16(a) * Lo16(b)) % Half) + ((Lo16(a) * Hi16(b)) % Half)) % Half
        hiw == ((hi + (Half \div 2)) % Half) - (Half \div 2)
    IN  hiw * Half + (low % Half)

RECURSIVE Bitwise(_, _, _)
\* f is the result bit as a function of the two operand bits
Bitwise(f, a, b) ==
    IF a \in {0, -1} /\ b \in {0, -1}
    THEN IF f[a % 2][b % 2] = 1 THEN -1 ELSE 0
    ELSE 2 * Bitwise(f, (a - (a % 2)) \div 2, (b - (b % 2)) \div 2)
         + f[a % 2][b % 2]

And32(a, b) == Bitwise([x \in {0, 1} |-> [y \in {0, 1} |-> IF x = 1 /\ y = 1 THEN 1 ELSE 0]], a, b)
Or32(a, b)  == Bitwise([x \in {0, 1} |-> [y \in {0, 1} |-> IF x = 1 \/ y = 1 THEN 1 ELSE 0]], a, b)
Xor32(a, b) == Bitwise([x \in {0, 1} |-> [y \in {0, 1} |-> IF x # y THEN 1 ELSE 0]], a, b)

Abs(a) == IF a < 0 THEN -a ELSE a
Sgn(a) == IF a < 0 THEN -1 ELSE 1

\* quotient of a by b rounded toward zero, for a, b in MinI32+1..MaxI32, b # 0
QuotSmall(a, b) == Sgn(a) * Sgn(b) * (Abs(a) \div Abs(b))
\* remainder of that division: it has the sign of the dividend
RemSmall(a, b) == Sgn(a) * (Abs(a) % Abs(b))

\* signed division as idivl performs it on a sign-extended dividend;
\* defined when b # 0 and not (a = MinI32 and b = -1)
Quot32(a, b) ==
    IF b = MinI32 THEN (IF a = MinI32 THEN 1 ELSE 0)
    ELSE IF a = MinI32 THEN QuotSmall(a + Abs(b), b) - Sgn(b)
    ELSE QuotSmall(a, b)

Rem32(a, b) ==
    IF b = MinI32 THEN (IF a = MinI32 THEN 0 ELSE a)
    ELSE IF a = MinI32 THEN RemSmall(a + Abs(b), b)
    ELSE RemSmall(a, b)

-----------------------------------------------------------------------------
(* Operands and instructions.                                              *)

\* enum Register
Register == {"AX", "R10", "DX", "R11"}

\* parser::UnaryOp and parser::BinaryOp, as matched by asmgen.rs
UnaryOp == {"Negate", "BitwiseComplement"}
BinaryOp == {"Add", "Subtract", "Multiply", "BitwiseAnd", "BitwiseOr",
             "BitwiseXor", "Divide", "Remainder"}

\* enum OperandAsm
Imm(int)   == [t |-> "Imm", int |-> int]
Reg(r)     == [t |-> "Reg", r |-> r]
Pseudo(id) == [t |-> "Pseudo", id |-> id]
Stack(off) == [t |-> "Stack", off |-> off]

\* enum InstructionAsm
Mov(src, dst)           == [t |-> "Mov", src |-> src, dst |-> dst]
Ret                     == [t |-> "Ret"]
Unary(unop, operand)    == [t |-> "Unary", unop |-> unop, operand |-> operand]
AllocStack(off)         == [t |-> "AllocStack", off |-> off]
Binary(binop, src, dst) == [t |-> "Binary", binop |-> binop, src |-> src, dst |-> dst]
Idiv(operand)           == [t |-> "Idiv", operand |-> operand]
Cdq                     == [t |-> "Cdq"]

\* tacky::ValTacky and tacky::InstructionTacky, as matched by asmgen.rs
Const(int) == [t |-> "Const", int |-> int]
TmpVar(no) == [t |-> "TmpVar", no |-> no]
TackyRet(v)                     == [t |-> "Ret", v |-> v]
TackyUnary(op, src, dst)        == [t |-> "Unary", op |-> op, src |-> src, dst |-> dst]
TackyBinary(op, src1, src2, dst) ==
    [t |-> "Binary", op |-> op, src1 |-> src1, src2 |-> src2, dst |-> dst]

\* the operands of an instruction, in field order
Operands(instr) ==
    CASE instr.t \in {"Mov", "Binary"} -> <<instr.src, instr.dst>>
      [] instr.t \in {"Unary", "Idiv"} -> <<instr.operand>>
      [] OTHER -> <<>>

RECURSIVE Flatten(_)
Flatten(ss) == IF ss = <<>> THEN <<>> ELSE Head(ss) \o Flatten(Tail(ss))

-----------------------------------------------------------------------------
(* Instruction selection.                                                  *)

translate_valtacky(tval) ==
    IF tval.t = "Const" THEN Imm(tval.int) ELSE Pseudo(tval.no)

\* translate_with_pseudo copying the remainder register for Divide and the
\* quotient register for Remainder
translate_instr_swapped_result(tacky_instr) ==
    CASE tacky_instr.t = "Ret" ->
            <<Mov(translate_valtacky(tacky_instr.v), Reg("AX")), Ret>>
      [] tacky_instr.t = "Unary" ->
            LET src == translate_valtacky(tacky_instr.src)
                dst == translate_valtacky(tacky_instr.dst)
            IN  <<Mov(src, dst), Unary(tacky_instr.op, dst)>>
      [] tacky_instr.t = "Binary" ->
            LET src1 == translate_valtacky(tacky_instr.src1)
                src2 == translate_valtacky(tacky_instr.src2)
                dst  == translate_valtacky(tacky_instr.dst)
            IN  CASE tacky_instr.op = "Divide" ->
                        <<Mov(src1, Reg("AX")), Cdq, Idiv(src2), Mov(Reg("DX"), dst)>>
                  [] tacky_instr.op = "Remainder" ->
                        <<Mov(src1, Reg("AX")), Cdq, Idiv(src2), Mov(Reg("AX"), dst)>>
                  [] OTHER ->
                        <<Mov(src1, dst), Binary(tacky_instr.op, src2, dst)>>

\* translate_with_pseudo loading src2 and combining src1 into it
translate_instr_swapped_srcs(tacky_instr) ==
    CASE tacky_instr.t = "Ret" ->
            <<Mov(translate_valtacky(tacky_instr.v), Reg("AX")), Ret>>
      [] tacky_instr.t = "Unary" ->
            LET src == translate_valtacky(tacky_instr.src)
                dst == translate_valtacky(tacky_instr.dst)
            IN  <<Mov(src, dst), Unary(tacky_instr.op, dst)>>
      [] tacky_instr.t = "Binary" ->
            LET src1 == translate_valtacky(tacky_instr.src1)
                src2 == translate_valtacky(tacky_instr.src2)
                dst  == translate_valtacky(tacky_instr.dst)
            IN  CASE tacky_instr.op = "Divide" ->
                        <<Mov(src1, Reg("AX")), Cdq, Idiv(src2), Mov(Reg("AX"), dst)>>
                    [] tacky_instr.op = "Remainder" ->
                        <<Mov(src1, Reg("AX")), Cdq, Idiv(src2), Mov(Reg("DX"), dst)>>
                    [] OTHER ->
                        <<Mov(src2, dst), Binary(tacky_instr.op, src1, dst)>>

\* one iteration of the loop of translate_with_pseudo
translate_instr(tacky_instr) ==
    CASE tacky_instr.t = "Ret" ->
            <<Mov(translate_valtacky(tacky_instr.v), Reg("AX")), Ret>>
      [] tacky_instr.t = "Unary" ->
            LET src == translate_valtacky(tacky_instr.src)
                dst == translate_valtacky(tacky_instr.dst)
            IN  <<Mov(src, dst), Unary(tacky_instr.op, dst)>>
      [] tacky_instr.t = "Binary" ->
            LET src1 == translate_valtacky(tacky_instr.src1)
                src2 == translate_valtacky(tacky_instr.src2)
                dst  == translate_valtacky(tacky_instr.dst)
            IN  CASE tacky_instr.op = "Divide" ->
                        <<Mov(src1, Reg("AX")), Cdq, Idiv(src2), Mov(Reg("AX"), dst)>>
                  [] tacky_instr.op = "Remainder" ->
                        <<Mov(src1, Reg("AX")), Cdq, Idiv(src2), Mov(Reg("DX"), dst)>>
                  [] OTHER ->
                        <<Mov(src1, dst), Binary(tacky_instr.op, src2, dst)>>

translate_with_pseudo(instrs) ==
    Flatten([i \in 1..Len(instrs) |-> translate_instr(instrs[i])])

-----------------------------------------------------------------------------
(* Pseudo-operand resolution.                                              *)

\* TmpVarResolver::new
TmpVarResolver_new == [min |-> -SlotBytes, min_used |-> 0, id_to_off |-> <<>>]

get_min_used(r) == r.min_used

\* temp_to_stack recording the slot after the new one as min_used
temp_to_stack_late_min_used(r, operand) ==
    IF operand.t = "Pseudo"
    THEN IF operand.id \in DOMAIN r.id_to_off
         THEN [r |-> r, op |-> Stack(r.id_to_off[operand.id])]
         ELSE [r |-> [min |-> r.min - SlotBytes,
                      min_used |-> r.min - SlotBytes,
                      id_to_off |-> (operand.id :> r.min) @@ r.id_to_off],
               op |-> Stack(r.min)]
    ELSE [r |-> r, op |-> operand]

\* temp_to_stack handing out the slot below the one it accounts for
temp_to_stack_next_slot(r, operand) ==
    IF operand.t = "Pseudo"
    THEN IF operand.id \in DOMAIN r.id_to_off
         THEN [r |-> r, op |-> Stack(r.id_to_off[operand.id])]
         ELSE [r |-> [min |-> r.min - SlotBytes,
                      min_used |-> r.min,
                      id_to_off |-> (operand.id :> (r.min - SlotBytes)) @@ r.id_to_off],
               op |-> Stack(r.min - SlotBytes)]
    ELSE [r |-> r, op |-> operand]

\* TmpVarResolver::temp_to_stack: the resolver afterwards and the operand returned
temp_to_stack(r, operand) ==
    IF operand.t = "Pseudo"
    THEN IF operand.id \in DOMAIN r.id_to_off
         THEN [r |-> r, op |-> Stack(r.id_to_off[operand.id])]
         ELSE [r |-> [min |-> r.min - SlotBytes,
                      min_used |-> r.min,
                      id_to_off |-> (operand.id :> r.min) @@ r.id_to_off],
               op |-> Stack(r.min)]
    ELSE [r |-> r, op |-> operand]

\* resolve_temps without the arm for Idiv
resolve_temps_skip_idiv(r, instr) ==
    CASE instr.t \in {"Mov", "Binary"} ->
            LET s == temp_to_stack(r, instr.src)
                d == temp_to_stack(s.r, instr.dst)
            IN  [r |-> d.r, instr |-> [instr EXCEPT !.src = s.op, !.dst = d.op]]
      [] instr.t = "Unary" ->
            LET o == temp_to_stack(r, instr.operand)
            IN  [r |-> o.r, instr |-> [instr EXCEPT !.operand = o.op]]
      [] OTHER -> [r |-> r, instr |-> instr]

\* resolve_temps resolving dst before src
resolve_temps_dst_first(r, instr) ==
    CASE instr.t \in {"Mov", "Binary"} ->
            LET d == temp_to_stack(r, instr.dst)
                s == temp_to_stack(d.r, instr.src)
            IN  [r |-> s.r, instr |-> [instr EXCEPT !.src = s.op, !.dst = d.op]]
      [] instr.t \in {"Unary", "Idiv"} ->
            LET o == temp_to_stack(r, instr.operand)
            IN  [r |-> o.r, instr |-> [instr EXCEPT !.operand = o.op]]
      [] OTHER -> [r |-> r, instr |-> instr]

\* TmpVarResolver::resolve_temps: the resolver afterwards and the instruction returned
resolve_temps(r, instr) ==
    CASE instr.t \in {"Mov", "Binary"} ->
            LET s == temp_to_stack(r, instr.src)
                d == temp_to_stack(s.r, instr.dst)
            IN  [r |-> d.r, instr |-> [instr EXCEPT !.src = s.op, !.dst = d.op]]
      [] instr.t \in {"Unary", "Idiv"} ->
            LET o == temp_to_stack(r, instr.operand)
            IN  [r |-> o.r, instr |-> [instr EXCEPT !.operand = o.op]]
      [] OTHER -> [r |-> r, instr |-> instr]

-----------------------------------------------------------------------------
(* Instruction fix-up.                                                     *)

\* resolve_binary whose two-slot rewrite leaves the source operand in place
resolve_binary_keep_src(instr) ==
    IF instr.binop = "Multiply"
    THEN <<Mov(instr.dst, Reg("R11")),
           Binary(instr.binop, instr.src, Reg("R11")),
           Mov(Reg("R11"), instr.dst)>>
    ELSE IF instr.src.t = "Stack" /\ instr.dst.t = "Stack"
         THEN <<Mov(instr.src, Reg("R10")),
                Binary(instr.binop, instr.src, instr.dst)>>
         ELSE <<instr>>

\* resolve_binary whose Multiply rewrite does not copy the product back
resolve_binary_no_copy_back(instr) ==
    IF instr.binop = "Multiply"
    THEN <<Mov(instr.dst, Reg("R11")),
           Binary(instr.binop, instr.src, Reg("R11"))>>
    ELSE IF instr.src.t = "Stack" /\ instr.dst.t = "Stack"
         THEN <<Mov(instr.src, Reg("R10")),
                Binary(instr.binop, Reg("R10"), instr.dst)>>
         ELSE <<instr>>

\* what resolve_binary appends for a Binary instruction
resolve_binary(instr) ==
    IF instr.binop = "Multiply"
    THEN <<Mov(instr.dst, Reg("R11")),
           Binary(instr.binop, instr.src, Reg("R11")),
           Mov(Reg("R11"), instr.dst)>>
    ELSE IF instr.src.t = "Stack" /\ instr.dst.t = "Stack"
         THEN <<Mov(instr.src, Reg("R10")),
                Binary(instr.binop, Reg("R10"), instr.dst)>>
         ELSE <<instr>>

\* fix_up_instrs without the arm for Idiv
fix_up_instr_no_idiv_arm(instr) ==
    CASE instr.t = "Mov" ->
            IF instr.src.t = "Stack" /\ instr.dst.t = "Stack"
            THEN <<Mov(instr.src, Reg("R10")), Mov(Reg("R10"), instr.dst)>>
            ELSE <<instr>>
      [] instr.t = "Binary" -> resolve_binary(instr)
      [] OTHER -> <<instr>>

\* fix_up_instrs dividing by R10 without loading the immediate into it
fix_up_instr_idiv_no_load(instr) ==
    CASE instr.t = "Mov" ->
            IF instr.src.t = "Stack" /\ instr.dst.t = "Stack"
            THEN <<Mov(instr.src, Reg("R10")), Mov(Reg("R10"), instr.dst)>>
            ELSE <<instr>>
      [] instr.t = "Binary" -> resolve_binary(instr)
      [] instr.t = "Idiv" ->
            IF instr.operand.t = "Imm"
            THEN <<Idiv(Reg("R10"))>>
            ELSE <<instr>>
      [] OTHER -> <<instr>>

\* what one iteration of the loop of fix_up_instrs appends
fix_up_instr(instr) ==
    CASE instr.t = "Mov" ->
            IF instr.src.t = "Stack" /\ instr.dst.t = "Stack"
            THEN <<Mov(instr.src, Reg("R10")), Mov(Reg("R10"), instr.dst)>>
            ELSE <<instr>>
      [] instr.t = "Binary" -> resolve_binary(instr)
      [] instr.t = "Idiv" ->
            IF instr.operand.t = "Imm"
            THEN <<Mov(Imm(instr.operand.int), Reg("R10")), Idiv(Reg("R10"))>>
            ELSE <<instr>>
      [] OTHER -> <<instr>>

\* the vector fix_up_instrs starts from, before its loop
fix_up_prefix(min_used) ==
    IF min_used # 0 THEN <<AllocStack(min_used)>> ELSE <<>>

\* the loop of fix_up_instrs alone
fix_up_body(instrs) ==
    Flatten([i \in 1..Len(instrs) |-> fix_up_instr(instrs[i])])

-----------------------------------------------------------------------------
(* Meaning of the emitted instructions (the mnemonics of the Display impl  *)
(* of InstructionAsm) on 32-bit registers and 4-byte slots below %rbp.     *)

\* the slots a program over temporaries 0..MaxTmp can be given
SlotOffsets == {-SlotBytes * k : k \in 1..(MaxTmp + 1)}

\* value of an operand: $int, a register, or off(%rbp)
Read(m, op) ==
    CASE op.t = "Imm" -> op.int
      [] op.t = "Reg" -> m.reg[op.r]
      [] op.t = "Stack" -> m.stack[op.off]

\* only registers and memory can be read or written; Display panics on Pseudo
Readable(op) == op.t \in {"Imm", "Reg", "Stack"}
Writable(op) == op.t \in {"Reg", "Stack"}

Write(m, op, v) ==
    IF op.t = "Reg" THEN [m EXCEPT !.reg[op.r] = v]
    ELSE [m EXCEPT !.stack[op.off] = v]

\* "subq $n, %rsp": the n the Display impl prints for AllocStack
AllocBytes(instr) == -1 * instr.off

\* cdq: %edx becomes the sign of %eax
SignExt(a) == IF a < 0 THEN -1 ELSE 0

\* the arithmetic of "<mnemonic> src, dst": the new value of dst
BinaryResult(binop, dstv, srcv) ==
    CASE binop = "Add" -> Add32(dstv, srcv)
      [] binop = "Subtract" -> Sub32(dstv, srcv)
      [] binop = "Multiply" -> Mul32(dstv, srcv)
      [] binop = "BitwiseAnd" -> And32(dstv, srcv)
      [] binop = "BitwiseOr" -> Or32(dstv, srcv)
      [] binop = "BitwiseXor" -> Xor32(dstv, srcv)

UnaryResult(unop, v) == IF unop = "Negate" THEN Neg32(v) ELSE Not32(v)

\* idivl: divides %edx:%eax by the operand, quotient to %eax, remainder to
\* %edx; a zero divisor or a quotient outside 32 bits raises a divide error.
\* A dividend that is not the sign extension of %eax is outside the 32-bit
\* arithmetic kept here and is reported as status "wide".
ExecIdiv(m, d) ==
    IF m.reg["DX"] # SignExt(m.reg["AX"]) THEN [m EXCEPT !.status = "wide"]
    ELSE IF d = 0 \/ (m.reg["AX"] = MinI32 /\ d = -1) THEN [m EXCEPT !.status = "fault"]
    ELSE [m EXCEPT !.reg["AX"] = Quot32(m.reg["AX"], d),
                   !.reg["DX"] = Rem32(m.reg["AX"], d)]

exec_instr(m, instr) ==
    IF m.status # "running" THEN m
    ELSE IF \E k \in 1..Len(Operands(instr)) : ~Readable(Operands(instr)[k])
         THEN [m EXCEPT !.status = "invalid"]
    ELSE CASE instr.t = "Mov" ->
                 IF Writable(instr.dst)
                 THEN Write(m, instr.dst, Read(m, instr.src))
                 ELSE [m EXCEPT !.status = "invalid"]
           [] instr.t = "Ret" -> [m EXCEPT !.status = "ret"]
           [] instr.t = "Unary" ->
                 IF Writable(instr.operand)
                 THEN Write(m, instr.operand, UnaryResult(instr.unop, Read(m, instr.operand)))
                 ELSE [m EXCEPT !.status = "invalid"]
           [] instr.t = "AllocStack" -> m
           [] instr.t = "Binary" ->
                 IF Writable(instr.dst) /\ instr.binop \notin {"Divide", "Remainder"}
                 THEN Write(m, instr.dst,
                            BinaryResult(instr.binop, Read(m, instr.dst), Read(m, instr.src)))
                 ELSE [m EXCEPT !.status = "invalid"]
           [] instr.t = "Idiv" -> ExecIdiv(m, Read(m, instr.operand))
           [] instr.t = "Cdq" -> [m EXCEPT !.reg["DX"] = SignExt(m.reg["AX"])]

RECURSIVE Run(_, _)
Run(instrs, m) ==
    IF instrs = <<>> THEN m ELSE Run(Tail(instrs), exec_instr(m, Head(instrs)))

-----------------------------------------------------------------------------
(* Inputs.                                                                 *)

\* constants of the TACKY programs explored by Spec, and the operators of
\* those of more than one instruction: one for each way asmgen.rs treats an
\* operator (Divide and Remainder differ in the register copied to dst)
PipeConsts == {2}
PipeUnaryOps == {"Negate"}
PipeBinaryOps == {"Subtract", "Multiply", "Divide"}
\* constants of the single-instruction programs explored by SpecInstr
InstrConsts == {-7, 0, 2, MaxI32}
\* values the stack slots and registers hold when the generated code starts
SlotVals == {-7, 2}
RegVals == {5}

TmpIds == 0..MaxTmp
Dsts == {TmpVar(n) : n \in TmpIds}
Vals(consts) == {Const(c) : c \in consts} \cup Dsts

TackyInstrs(consts, unops, binops) ==
    {TackyRet(v) : v \in Vals(consts)}
    \cup {TackyUnary(op, s, d) : op \in unops, s \in Vals(consts), d \in Dsts}
    \cup {TackyBinary(op, s1, s2, d) :
             op \in binops, s1 \in Vals(consts), s2 \in Vals(consts), d \in Dsts}

Programs(alphabet, n) == UNION {[1..k -> alphabet] : k \in 1..n}

\* the slots of a frame of -min_used bytes
FrameSlots(min_used) == {off \in SlotOffsets : off >= min_used}

\* the machine states a function with that frame may be entered in
InitMachines(min_used) ==
    {[reg |-> [r \in Register |-> rv], stack |-> st, status |-> "running"] :
        rv \in RegVals, st \in [FrameSlots(min_used) -> SlotVals]}

Idle == [status |-> "idle"]

-----------------------------------------------------------------------------
(* translate_fundef as a state machine.                                    *)

InitWith(programs) ==
    /\ tacky_instrs \in programs
    /\ pc = "select"
    /\ pseudo_instrs = <<>>
    /\ tmp_resolver = TmpVarResolver_new
    /\ resolved_instrs = <<>>
    /\ res = <<>>
    /\ fix_i = 0
    /\ m_init = Idle
    /\ m_resolved = Idle
    /\ m_fixed = Idle

Init ==
    InitWith(Programs(TackyInstrs(PipeConsts, UnaryOp, BinaryOp), 1)
             \cup Programs(TackyInstrs(PipeConsts, PipeUnaryOps, PipeBinaryOps), MaxInstrs))

InitInstr == InitWith(Programs(TackyInstrs(InstrConsts, UnaryOp, BinaryOp), 1))

\* let pseudo_instrs = translate_with_pseudo(tacky_fundef.instructions);
\* let mut tmp_resolver = TmpVarResolver::new();
Select ==
    /\ pc = "select"
    /\ pseudo_instrs' = translate_with_pseudo(tacky_instrs)
    /\ tmp_resolver' = TmpVarResolver_new
    /\ pc' = "resolve"
    /\ UNCHANGED <<tacky_instrs, resolved_instrs, res, fix_i, m_init, m_resolved, m_fixed>>

\* one element of pseudo_instrs.into_iter().map(|i| tmp_resolver.resolve_temps(i))
Resolve ==
    /\ pc = "resolve"
    /\ Len(resolved_instrs) < Len(pseudo_instrs)
    /\ LET out == resolve_temps(tmp_resolver, pseudo_instrs[Len(resolved_instrs) + 1])
       IN  /\ tmp_resolver' = out.r
           /\ resolved_instrs' = Append(resolved_instrs, out.instr)
    /\ UNCHANGED <<tacky_instrs, pc, pseudo_instrs, res, fix_i, m_init, m_resolved, m_fixed>>

\* entry of fix_up_instrs(resolved_instrs, tmp_resolver.get_min_used())
FixUpBegin ==
    /\ pc = "resolve"
    /\ Len(resolved_instrs) = Len(pseudo_instrs)
    /\ res' = fix_up_prefix(get_min_used(tmp_resolver))
    /\ fix_i' = 0
    /\ pc' = IF Len(resolved_instrs) = 0 THEN "done" ELSE "fixup"
    /\ UNCHANGED <<tacky_instrs, pseudo_instrs, tmp_resolver, resolved_instrs,
                   m_init, m_resolved, m_fixed>>

\* one iteration of the loop of fix_up_instrs; after the last one res is
\* returned and becomes FunDefAsm.instructions
FixUpStep ==
    /\ pc = "fixup"
    /\ fix_i < Len(resolved_instrs)
    /\ res' = res \o fix_up_instr(resolved_instrs[fix_i + 1])
    /\ fix_i' = fix_i + 1
    /\ pc' = IF fix_i + 1 = Len(resolved_instrs) THEN "done" ELSE "fixup"
    /\ UNCHANGED <<tacky_instrs, pseudo_instrs, tmp_resolver, resolved_instrs,
                   m_init, m_resolved, m_fixed>>

\* the emitted function is assembled and run from some machine state; the
\* resolved, not yet fixed-up instructions are run from the same state
Execute ==
    /\ pc = "done"
    /\ \E m \in InitMachines(get_min_used(tmp_resolver)) :
           /\ m_init' = m
           /\ m_resolved' = Run(resolved_instrs, m)
           /\ m_fixed' = Run(res, m)
    /\ pc' = "ran"
    /\ UNCHANGED <<tacky_instrs, pseudo_instrs, tmp_resolver, resolved_instrs, res, fix_i>>

Next == Select \/ Resolve \/ FixUpBegin \/ FixUpStep \/ Execute

Spec == Init /\ [][Next]_vars

SpecInstr == InitInstr /\ [][Next]_vars

-----------------------------------------------------------------------------
(* Vocabulary of the properties.                                           *)

\* translate_fundef has returned (running the code afterwards changes none of
\* the compiler's variables)
Done == pc = "done"

InstrsOf(instrs) == {instrs[i] : i \in 1..Len(instrs)}
OperandsOf(instrs) == UNION {{Operands(x)[k] : k \in 1..Len(Operands(x))} : x \in InstrsOf(instrs)}

BothStack(instr) == instr.src.t = "Stack" /\ instr.dst.t = "Stack"
IsMultiply(instr) == instr.t = "Binary" /\ instr.binop = "Multiply"

\* the values of a TACKY instruction, and the temporary ids among them
TackyVals(ti) ==
    CASE ti.t = "Ret" -> {ti.v}
      [] ti.t = "Unary" -> {ti.src, ti.dst}
      [] ti.t = "Binary" -> {ti.src1, ti.src2, ti.dst}
TackyTmpIds(instrs) ==
    {v.no : v \in {w \in UNION {TackyVals(ti) : ti \in InstrsOf(instrs)} : w.t = "TmpVar"}}

\* the value a TACKY value has in machine state m under the resolver's slots
ValueIn(m, v) ==
    IF v.t = "Const" THEN v.int ELSE m.stack[tmp_resolver.id_to_off[v.no]]

\* the program is one Binary TACKY instruction with an operator in ops
SingleBinary(ops) ==
    /\ Len(tacky_instrs) = 1
    /\ tacky_instrs[1].t = "Binary"
    /\ tacky_instrs[1].op \in ops

-----------------------------------------------------------------------------
(* Properties of the pipeline (checked under Spec).                        *)

\* C1: the instructions translate_fundef returns (select, resolve, fix up)
\* have no Pseudo operand in any operand position.
NoPseudoInOutput ==
    pc \in {"fixup", "done"} => \A op \in OperandsOf(res) : op.t # "Pseudo"

\* a function whose selected instructions had Pseudo operands, in an Idiv too
NoPseudoInOutputWitness ==
    /\ Done
    /\ \E x \in InstrsOf(pseudo_instrs) : x.t = "Idiv" /\ x.operand.t = "Pseudo"
    /\ \E x \in InstrsOf(pseudo_instrs) : x.t = "Mov" /\ x.dst.t = "Pseudo"
    /\ \E x \in InstrsOf(res) : x.t = "Idiv" /\ x.operand.t = "Stack"

\* the operand placement rules of the target, for one instruction
Placed(x) ==
    /\ x.t = "Mov" => ~BothStack(x)
    /\ (x.t = "Binary" /\ x.binop # "Multiply") => ~BothStack(x)
    /\ IsMultiply(x) => x.dst.t # "Stack"
    /\ x.t = "Idiv" => x.operand.t # "Imm"

\* C2: every instruction fix_up_instrs has emitted obeys the placement
\* rules: no Mov and no Binary other than Multiply between two Stack
\* operands, no Multiply into a Stack operand, no Idiv of an Imm operand.
PlacementRules ==
    pc \in {"fixup", "done"} => \A x \in InstrsOf(res) : Placed(x)

\* a resolved function that broke the Mov and the Multiply rule
PlacementRulesWitness ==
    /\ Done
    /\ \A x \in OperandsOf(resolved_instrs) : x.t \in {"Imm", "Reg", "Stack"}
    /\ \E x \in InstrsOf(resolved_instrs) : x.t = "Mov" /\ BothStack(x)
    /\ \E x \in InstrsOf(resolved_instrs) : IsMultiply(x) /\ BothStack(x)
    /\ Len(res) > Len(resolved_instrs) + 1

\* C3 as stated: running the loop of fix_up_instrs on the returned
\* instructions gives them back unchanged.
FixUpIdempotent == Done => fix_up_body(res) = res

\* C3 as amended: the loop of fix_up_instrs leaves every returned instruction
\* other than a Multiply as it is, and so gives back unchanged the
\* instructions of a function without Multiply.
FixUpIdempotentButMultiply ==
    Done =>
        /\ \A x \in InstrsOf(res) : ~IsMultiply(x) => fix_up_instr(x) = <<x>>
        /\ (\A x \in InstrsOf(res) : ~IsMultiply(x)) => fix_up_body(res) = res

\* a function without Multiply whose Mov and Binary were rewritten
FixUpIdempotentWitness ==
    /\ Done
    /\ \A x \in InstrsOf(res) : ~IsMultiply(x)
    /\ \E x \in InstrsOf(resolved_instrs) : x.t = "Binary" /\ BothStack(x)
    /\ \E x \in InstrsOf(resolved_instrs) : x.t = "Mov" /\ BothStack(x)
    /\ fix_up_body(res) = res

\* C4: with n the number of distinct temporary ids of the TACKY function,
\* if n > 0 the returned instructions start with the only AllocStack, its
\* off is -4n and it is printed as a subtraction of 4n; if n = 0 there is
\* no AllocStack.
FrameSizing ==
    Done =>
        LET n == Cardinality(TackyTmpIds(tacky_instrs))
            allocs == {i \in 1..Len(res) : res[i].t = "AllocStack"}
        IN  IF n > 0
            THEN /\ allocs = {1}
                 /\ res[1].off = -SlotBytes * n
                 /\ AllocBytes(res[1]) = SlotBytes * n
            ELSE allocs = {}

\* a function of three temporaries
FrameSizingWitness ==
    /\ Done
    /\ Cardinality(TackyTmpIds(tacky_instrs)) = 3
    /\ res[1] = AllocStack(-12)
    /\ \A i \in 2..Len(res) : res[i].t # "AllocStack"

\* the abstract effect of running code: the status, every stack slot, and the
\* registers AX and DX (R10 and R11 are scratch)
Effect(m) == <<m.status, m.stack, m.reg["AX"], m.reg["DX"]>>

\* C5: from every machine state, running the instructions fix_up_instrs
\* returns leaves every stack slot and the registers AX and DX as running
\* the resolved instructions it was given does; both runs end the same way.
SameEffect ==
    pc = "ran" =>
        /\ m_resolved.status \in {"running", "ret", "fault"}
        /\ Effect(m_fixed) = Effect(m_resolved)

\* a run that changed a slot and in which both scratch registers were used
SameEffectWitness ==
    /\ pc = "ran"
    /\ m_fixed.status = "running"
    /\ m_fixed.stack # m_init.stack
    /\ m_fixed.reg["R10"] # m_resolved.reg["R10"]
    /\ m_fixed.reg["R11"] # m_resolved.reg["R11"]

\* the ids of the Pseudo operands of the first n selected instructions, in
\* the order the resolver meets them: instruction order, src before dst
PseudoIdsMet(n) ==
    LET ops == Flatten([i \in 1..n |-> Operands(pseudo_instrs[i])])
        IsPseudo(o) == o.t = "Pseudo"
        met == SelectSeq(ops, IsPseudo)
    IN  [p \in 1..Len(met) |-> met[p].id]

\* k such that id is the k-th distinct id of ids
RankIn(ids, id) ==
    LET first(x) == CHOOSE p \in 1..Len(ids) : ids[p] = x /\ \A q \in 1..(p - 1) : ids[q] # x
    IN  Cardinality({ids[q] : q \in 1..first(id)})

\* C8: after every call of resolve_temps, the k-th distinct temporary id the
\* resolver has met (instructions in order, src before dst) has Stack offset
\* -4k, every occurrence of an id is rewritten to the offset of that id,
\* and other operands are kept.
FirstEncounterSlots ==
    LET n == Len(resolved_instrs)
        ids == PseudoIdsMet(n)
        idset == {ids[p] : p \in 1..Len(ids)}
        slot(id) == -SlotBytes * RankIn(ids, id)
    IN  pc = "resolve" =>
        /\ DOMAIN tmp_resolver.id_to_off = idset
        /\ \A id \in idset : tmp_resolver.id_to_off[id] = slot(id)
        /\ \A i \in 1..n :
               /\ Len(Operands(resolved_instrs[i])) = Len(Operands(pseudo_instrs[i]))
               /\ \A k \in 1..Len(Operands(pseudo_instrs[i])) :
                     LET o == Operands(pseudo_instrs[i])[k]
                     IN  Operands(resolved_instrs[i])[k] =
                             IF o.t = "Pseudo" THEN Stack(slot(o.id)) ELSE o

\* three temporaries met in an order that is not the order of their ids, one
\* of them met again later
FirstEncounterSlotsWitness ==
    /\ pc = "resolve"
    /\ Len(resolved_instrs) = Len(pseudo_instrs)
    /\ DOMAIN tmp_resolver.id_to_off = {0, 1, 2}
    /\ tmp_resolver.id_to_off[2] = -4
    /\ tmp_resolver.id_to_off[0] = -8
    /\ Len(PseudoIdsMet(Len(pseudo_instrs))) > 3

\* registers an instruction reads and writes
RegsOf(ops) == {o.r : o \in {x \in ops : x.t = "Reg"}}
RegReads(x) ==
    CASE x.t = "Mov" -> RegsOf({x.src})
      [] x.t = "Unary" -> RegsOf({x.operand})
      [] x.t = "Binary" -> RegsOf({x.src, x.dst})
      [] x.t = "Idiv" -> RegsOf({x.operand}) \cup {"AX", "DX"}
      [] x.t = "Cdq" -> {"AX"}
      [] OTHER -> {}
RegWrites(x) ==
    CASE x.t = "Mov" -> RegsOf({x.dst})
      [] x.t = "Unary" -> RegsOf({x.operand})
      [] x.t = "Binary" -> RegsOf({x.dst})
      [] x.t = "Idiv" -> {"AX", "DX"}
      [] x.t = "Cdq" -> {"DX"}
      [] OTHER -> {}

\* every read of R10 or R11 in g follows a write of that register in g
ScratchClosed(g) ==
    \A j \in 1..Len(g) : \A r \in RegReads(g[j]) \cap {"R10", "R11"} :
        \E k \in 1..(j - 1) : r \in RegWrites(g[k])

\* C9: in the instructions one iteration of fix_up_instrs appends for one
\* resolved instruction, every instruction that reads R10 or R11 comes
\* after one that writes that register, so no read of a scratch register
\* sees a value from another iteration or an unwritten one.
ScratchLocal ==
    [][pc = "fixup" => ScratchClosed(SubSeq(res', Len(res) + 1, Len(res')))]_vars

\* a function whose fix-up read both scratch registers, for two instructions
ScratchLocalWitness ==
    /\ Done
    /\ \E x \in InstrsOf(res) : "R10" \in RegReads(x)
    /\ \E x \in InstrsOf(res) : "R11" \in RegReads(x)
    /\ fix_i = 2

\* C10: after every call of resolve_temps min_used is the most negative
\* offset assigned so far (0 if none); it is the off of the AllocStack, and
\* every Stack operand of the returned instructions has an offset that is a
\* multiple of 4 between min_used and -4.
SlotsInFrame ==
    LET offs == {tmp_resolver.id_to_off[id] : id \in DOMAIN tmp_resolver.id_to_off}
        min_used == get_min_used(tmp_resolver)
    IN  /\ pc = "resolve" =>
               min_used = IF offs = {} THEN 0 ELSE CHOOSE o \in offs : \A q \in offs : o <= q
        /\ Done =>
               /\ min_used # 0 => res[1] = AllocStack(min_used)
               /\ \A op \in OperandsOf(res) :
                      op.t = "Stack" =>
                          /\ op.off % SlotBytes = 0
                          /\ min_used <= op.off
                          /\ op.off <= -SlotBytes

\* a function using the three slots of a 12-byte frame
SlotsInFrameWitness ==
    /\ Done
    /\ get_min_used(tmp_resolver) = -12
    /\ {Stack(-4), Stack(-8), Stack(-12)} \subseteq OperandsOf(res)

-----------------------------------------------------------------------------
(* Properties of the code of one TACKY instruction (checked under          *)
(* SpecInstr).                                                             *)

\* quotient rounded toward zero and the remainder it leaves, for a, b above
\* MinI32 and b # 0
TruncQuot(a, b) == Sgn(a) * Sgn(b) * (Abs(a) \div Abs(b))
TruncRem(a, b) == a - b * TruncQuot(a, b)

\* the slot of dst after the code of the single TACKY instruction has run
DstAfter == m_fixed.stack[tmp_resolver.id_to_off[tacky_instrs[1].dst.no]]

\* C6: after the code of Binary(Divide or Remainder, s1, s2, dst) has run
\* with a non-zero divisor and a quotient that fits 32 bits, dst holds the
\* quotient rounded toward zero for Divide and the remainder with the sign
\* of the dividend for Remainder: -3 and -1 for -7 and 2.
DivisionResult ==
    (pc = "ran" /\ SingleBinary({"Divide", "Remainder"})) =>
        LET ti == tacky_instrs[1]
            a == ValueIn(m_init, ti.src1)
            b == ValueIn(m_init, ti.src2)
        IN  (b # 0 /\ ~(a = MinI32 /\ b = -1)) =>
                /\ m_fixed.status = "running"
                /\ DstAfter = IF ti.op = "Divide" THEN TruncQuot(a, b) ELSE TruncRem(a, b)
                /\ (a = -7 /\ b = 2) => DstAfter = IF ti.op = "Divide" THEN -3 ELSE -1

\* -7 % 2 with the divisor a constant, which went through R10
DivisionResultWitness ==
    /\ pc = "ran"
    /\ SingleBinary({"Remainder"})
    /\ tacky_instrs[1].src1.t = "TmpVar"
    /\ tacky_instrs[1].src2 = Const(2)
    /\ ValueIn(m_init, tacky_instrs[1].src1) = -7
    /\ m_fixed.reg["R10"] = 2
    /\ DstAfter = -1

ArithOps == {"Add", "Subtract", "Multiply", "BitwiseAnd", "BitwiseOr", "BitwiseXor"}

\* C7 as stated: after the code of Binary(op, s1, s2, dst) has run, for op
\* one of add, subtract, multiply, and, or, xor and any s1, s2 and dst, dst
\* holds op applied to the values s1 and s2 had before.
BinaryResultAnyDst ==
    (pc = "ran" /\ SingleBinary(ArithOps)) =>
        LET ti == tacky_instrs[1]
        IN  /\ m_fixed.status = "running"
            /\ DstAfter = BinaryResult(ti.op, ValueIn(m_init, ti.src1), ValueIn(m_init, ti.src2))

\* C7 as amended: the same, provided s2 is not the temporary dst or s1 and
\* s2 are the same value.
BinaryResultDstNotSrc2 ==
    (pc = "ran" /\ SingleBinary(ArithOps)) =>
        LET ti == tacky_instrs[1]
        IN  (ti.src2 # ti.dst \/ ti.src1 = ti.src2) =>
                /\ m_fixed.status = "running"
                /\ DstAfter = BinaryResult(ti.op, ValueIn(m_init, ti.src1), ValueIn(m_init, ti.src2))

\* t0 = t0 - t1 from -7 and 2
BinaryResultWitness ==
    /\ pc = "ran"
    /\ SingleBinary({"Subtract"})
    /\ tacky_instrs[1].src1 = tacky_instrs[1].dst
    /\ tacky_instrs[1].src2.t = "TmpVar"
    /\ tacky_instrs[1].src2 # tacky_instrs[1].dst
    /\ ValueIn(m_init, tacky_instrs[1].src1) = -7
    /\ ValueIn(m_init, tacky_instrs[1].src2) = 2
    /\ DstAfter = -9

====
